---- MODULE Spec2Model ----
(***************************************************************************)
(* AtlasOptimizer: the feedback controller (src/src/tool.py, class Tool)   *)
(* that tunes an adaptive pressure in parameter.ini, and the diagnosis     *)
(* engine (src/src/validator.py, class Validator).                         *)
(*                                                                         *)
(* Text.  A Python str is a sequence of tokens.  A token is a triple       *)
(* <<tag, n, d>>: a literal piece of text <<"text", 0, 1>>, the text of a  *)
(* float <<"float", n, d>> (the value n/d in lowest terms) or the text of  *)
(* an int <<"int", n, 1>>.  `a in b` on str is containment of a as a       *)
(* contiguous run of tokens of b.  Decimal indices are formatted digit by  *)
(* digit, so that "...Species1-" is not contained in "...Species10-" while *)
(* "...-SF-001" is contained in "...-SF-0010".                             *)
(*                                                                         *)
(* Numbers.  A Python float is modelled by the exact rational <<n, d>>,    *)
(* d > 0, in lowest terms; rounding of binary floating point is not        *)
(* modelled.                                                               *)
(***************************************************************************)
EXTENDS Integers, Sequences, FiniteSets, TLC

(***************************************************************************)
(* Bounds of the model.                                                    *)
(***************************************************************************)
\* lines of parameter.ini
MaxLines == 2
\* calls of Tool.fit on one controller
MaxFits == 2

(***************************************************************************)
(* Rational arithmetic (Python float arithmetic, exact).                   *)
(***************************************************************************)
Abs(n) == IF n < 0 THEN -n ELSE n

RECURSIVE Gcd(_, _)
Gcd(a, b) == IF b = 0 THEN a ELSE Gcd(b, a % b)

Rat(n, d) ==
    LET s == IF d < 0 THEN -1 ELSE 1
        g == Gcd(Abs(n), Abs(d))
    IN  <<(s * n) \div g, (s * d) \div g>>

RInt(n) == <<n, 1>>
RAdd(a, b) == Rat(a[1] * b[2] + b[1] * a[2], a[2] * b[2])
RSub(a, b) == Rat(a[1] * b[2] - b[1] * a[2], a[2] * b[2])
RMul(a, b) == Rat(a[1] * b[1], a[2] * b[2])
RDiv(a, b) == Rat(a[1] * b[2], a[2] * b[1])
RAbs(a) == <<Abs(a[1]), a[2]>>
RLt(a, b) == a[1] * b[2] < b[1] * a[2]
\* int(x): truncation toward zero
Trunc(a) == IF a[1] >= 0 THEN a[1] \div a[2] ELSE -((-a[1]) \div a[2])

(***************************************************************************)
(* Text.                                                                   *)
(***************************************************************************)
Lit(s) == <<s, 0, 1>>
FloatText(q) == <<"float", q[1], q[2]>>
IntText(n) == <<"int", n, 1>>
\* f"{value}" of a float (kind "float") or of an int (kind "int")
Fmt(value) ==
    IF value.kind = "int" THEN <<IntText(value.n)>> ELSE <<FloatText(value.q)>>
FloatVal(q) == [kind |-> "float", n |-> 0, q |-> q]
IntVal(n) == [kind |-> "int", n |-> n, q |-> <<n, 1>>]

DigitText == <<"0", "1", "2", "3", "4", "5", "6", "7", "8", "9">>
\* f"{n}" of a non-negative index
RECURSIVE Digits(_)
Digits(n) ==
    IF n < 10 THEN <<Lit(DigitText[n + 1])>>
    ELSE Digits(n \div 10) \o <<Lit(DigitText[(n % 10) + 1])>>

\* `a in b` for str
Contains(b, a) ==
    \E i \in 0..(Len(b) - Len(a)) : SubSeq(b, i + 1, i + Len(a)) = a

NL == Lit("\n")
EQ == Lit("=")
NONE == Lit("None")
SPACE == Lit(" ")

(***************************************************************************)
(* The text file parameter.ini: file.readlines() / file.writelines().      *)
(***************************************************************************)
\* f"Part-Species{specie}-MacroParticleFactor"
MacroParticlesKey(specie) ==
    <<Lit("Part-Species")>> \o Digits(specie) \o <<Lit("-MacroParticleFactor")>>

\* f"Part-Species{specie}-Surfaceflux{surfaceflux}-Adaptive-{adaptive_type}"
OptionKey(specie, surfaceflux, adaptive_type) ==
    <<Lit("Part-Species")>> \o Digits(specie) \o <<Lit("-Surfaceflux")>>
        \o Digits(surfaceflux) \o <<Lit("-Adaptive-"), Lit(adaptive_type)>>

\* Tool.__check_none: TRUE when it raises ValueError (the option is already defined)
CheckNoneRaises(lines, option) ==
    \E i \in 1..Len(lines) :
        /\ Contains(lines[i], option)
        /\ ~Contains(lines[i], option \o <<EQ, NONE>>)

\* a variant that appends the option when no line holds it
ChangeValueAppend(lines, option, value) ==
    IF \E i \in 1..Len(lines) : Contains(lines[i], option)
    THEN [i \in 1..Len(lines) |->
            IF Contains(lines[i], option)
            THEN option \o <<EQ>> \o Fmt(value) \o <<NL>>
            ELSE lines[i]]
    ELSE Append(lines, option \o <<EQ>> \o Fmt(value) \o <<NL>>)

\* Tool.__change_value: the lines written back to parameter.ini
ChangeValue(lines, option, value) ==
    [i \in 1..Len(lines) |->
        IF Contains(lines[i], option)
        THEN option \o <<EQ>> \o Fmt(value) \o <<NL>>
        ELSE lines[i]]

(***************************************************************************)
(* The controller: class Tool.                                             *)
(***************************************************************************)
VARIABLES
    iniExists,  \* the directory `path` holds a file named parameter.ini
    ini,        \* the lines of parameter.ini
    tool,       \* the fields of the Tool object (exists = FALSE: none built)
    fits,       \* calls of fit made on the controller
    call        \* the last operation: its arguments, the state before it, its outcome

toolVars == <<iniExists, ini, tool, fits, call>>

NoText == <<>>
Zero == RInt(0)

NoTool ==
    [exists |-> FALSE, adaptive_type |-> "", specie |-> 0, surfaceflux |-> 0,
     pressure |-> Zero, cell_size |-> Zero, particles_in_element |-> Zero,
     boltzmann_constant |-> Zero, temperature |-> Zero,
     macro_particles |-> NoText, option |-> NoText,
     has_target |-> FALSE, target |-> NoText,
     has_desired |-> FALSE, desired_value |-> Zero, fitted |-> FALSE]

NoCall ==
    [op |-> "none", raised |-> "", adaptive_type |-> "", output_type |-> "",
     specie |-> 0, surfaceflux |-> 0,
     pre_ini |-> <<>>, pre_tool |-> NoTool,
     header |-> <<>>, rows |-> <<>>, rate |-> Zero, accuracy |-> Zero,
     updates |-> 0, marked |-> FALSE, writes |-> <<>>]

\* one call of Tool.__change_value, as the log of an operation keeps it
Write(before, option, value) ==
    [option |-> option, value |-> value, before |-> before,
     after |-> ChangeValue(before, option, value)]

\* a variant that also lets "massflow" through
SetAdaptiveTypeAcceptsMassflow(adaptive_type) ==
    adaptive_type \notin {"pressure", "massflow"}

\* Tool.__set_adaptive_type: TRUE when it raises ValueError (invalid adaptive type)
SetAdaptiveTypeRaises(adaptive_type) == adaptive_type \notin {"pressure"}

\* the macro particle factor Tool.__compute_macro_particles writes: int(...)
MacroParticleFactor(t, pressure) ==
    Trunc(RDiv(RMul(RDiv(pressure, RMul(t.boltzmann_constant, t.temperature)),
                    RMul(t.cell_size, RMul(t.cell_size, t.cell_size))),
               t.particles_in_element))

\* Tool.__compute_macro_particles: the write it makes
ComputeMacroParticles(t, lines, pressure) ==
    Write(lines, t.macro_particles, IntVal(MacroParticleFactor(t, pressure)))

\* the fields __init__ assigns before its first check of parameter.ini
InitFields(a) ==
    [NoTool EXCEPT
        !.exists = TRUE,
        !.adaptive_type = "Pressure",
        !.specie = a.specie,
        !.surfaceflux = a.surfaceflux,
        !.pressure = a.pressure,
        !.cell_size = a.cell_size,
        !.particles_in_element = a.particles_in_element,
        !.boltzmann_constant = a.boltzmann_constant,
        !.temperature = a.temperature,
        !.macro_particles = MacroParticlesKey(a.specie),
        !.option = OptionKey(a.specie, a.surfaceflux, "Pressure")]

Failed(raised, lines, writes) ==
    [raised |-> raised, lines |-> lines, writes |-> writes, tool |-> NoTool]

\* a variant that writes the option before it checks the macro particle factor
ToolInitWritesOptionFirst(exists, lines, a) ==
    LET t == InitFields(a)
        w1 == Write(lines, t.option, FloatVal(t.pressure))
        w2 == ComputeMacroParticles(t, w1.after, t.pressure)
    IN  IF ~exists THEN Failed("FileNotFoundError", lines, <<>>)
        ELSE IF SetAdaptiveTypeRaises(a.adaptive_type)
        THEN Failed("InvalidAdaptiveType", lines, <<>>)
        ELSE IF CheckNoneRaises(lines, t.option)
        THEN Failed("AlreadyDefined", lines, <<>>)
        ELSE IF CheckNoneRaises(w1.after, t.macro_particles)
        THEN Failed("AlreadyDefined", w1.after, <<w1>>)
        ELSE [raised |-> "", lines |-> w2.after, writes |-> <<w1, w2>>, tool |-> t]

\* Tool.__init__ on a directory (exists, lines) with the arguments a:
\* what it raises, the lines it leaves in parameter.ini, the object it builds
ToolInit(exists, lines, a) ==
    LET t == InitFields(a)
        w1 == Write(lines, t.option, FloatVal(t.pressure))
        w2 == ComputeMacroParticles(t, w1.after, t.pressure)
    IN  IF ~exists THEN Failed("FileNotFoundError", lines, <<>>)
        ELSE IF SetAdaptiveTypeRaises(a.adaptive_type)
        THEN Failed("InvalidAdaptiveType", lines, <<>>)
        \* "massflow" passing the check would leave __adaptive_type unassigned
        ELSE IF a.adaptive_type # "pressure"
        THEN Failed("AttributeError", lines, <<>>)
        ELSE IF CheckNoneRaises(lines, t.macro_particles)
        THEN Failed("AlreadyDefined", lines, <<>>)
        ELSE IF CheckNoneRaises(lines, t.option)
        THEN Failed("AlreadyDefined", lines, <<>>)
        ELSE [raised |-> "", lines |-> w2.after, writes |-> <<w1, w2>>, tool |-> t]

\* f"{adaptive_type}-Spec-00{specie}-SF-00{surfaceflux}"
FluxTarget(t) ==
    <<Lit(t.adaptive_type), Lit("-Spec-00")>> \o Digits(t.specie)
        \o <<Lit("-SF-00")>> \o Digits(t.surfaceflux)

\* Tool.set_target: the object after the call
SetTarget(t, output_type, value, characteristic_length, analytical_time) ==
    IF output_type = "flux"
    THEN [t EXCEPT !.has_target = TRUE, !.target = FluxTarget(t),
                   !.has_desired = TRUE, !.desired_value = value]
    ELSE IF output_type = "Kn"
    THEN [t EXCEPT !.has_target = TRUE, !.target = <<Lit("MeanFreePath")>>,
                   !.has_desired = TRUE,
                   !.desired_value =
                       RMul(RMul(value, characteristic_length), analytical_time)]
    ELSE t

\* Tool.__read_part_analyze: the rows kept of PartAnalyze.csv, those without a 0
ReadPartAnalyze(rows) ==
    SelectSeq(rows, LAMBDA r : \A j \in 1..Len(r) : r[j] # 0)

\* error_rate = (steady_value - desired_value) / desired_value
ErrorRate(steady_value, desired_value) ==
    RDiv(RSub(steady_value, desired_value), desired_value)

\* a variant with the comparison turned around
ConvergedInverted(error_rate, accuracy) == RLt(accuracy, RAbs(error_rate))

\* np.abs(error_rate) < accuracy
Converged(error_rate, accuracy) == RLt(RAbs(error_rate), accuracy)

\* a variant without np.abs
NewPressureNoAbs(pressure, rate, error_rate) ==
    RAdd(pressure, RMul(RMul(pressure, rate), error_rate))

\* pressure + pressure * rate * error_rate, then np.abs
NewPressure(pressure, rate, error_rate) ==
    RAbs(RAdd(pressure, RMul(RMul(pressure, rate), error_rate)))

\* the state of a call of fit before its loop over the columns
FitStart(t, lines) ==
    [pressure |-> t.pressure, fitted |-> t.fitted, lines |-> lines,
     raised |-> "", returned |-> FALSE, updates |-> 0, marked |-> FALSE,
     writes |-> <<>>]

\* Tool.fit, the body of its loop for the column at `index`
FitColumn(t, st, header, data, index, rate, accuracy) ==
    IF st.returned \/ st.raised # "" THEN st
    \* `None in column`
    ELSE IF ~t.has_target THEN [st EXCEPT !.raised = "TypeError"]
    ELSE IF ~Contains(header[index], t.target) THEN st
    \* self.__part_analyze[-1, index] of a table without rows
    ELSE IF Len(data) = 0 THEN [st EXCEPT !.raised = "IndexError"]
    ELSE
        LET steady_value == RInt(data[Len(data)][index])
            error_rate == ErrorRate(steady_value, t.desired_value)
            pressure == NewPressure(st.pressure, rate, error_rate)
            w1 == Write(st.lines, t.option, FloatVal(pressure))
            w2 == ComputeMacroParticles(t, w1.after, pressure)
        IN  IF Converged(error_rate, accuracy)
            THEN [st EXCEPT !.fitted = TRUE, !.marked = TRUE, !.returned = TRUE]
            ELSE [st EXCEPT !.pressure = pressure,
                            !.lines = w2.after,
                            !.updates = @ + 1,
                            !.writes = @ \o <<w1, w2>>]

\* Tool.fit, its loop from the column at `index` on
RECURSIVE FitColumns(_, _, _, _, _, _, _)
FitColumns(t, st, header, data, index, rate, accuracy) ==
    IF index > Len(header) THEN st
    ELSE FitColumns(t, FitColumn(t, st, header, data, index, rate, accuracy),
                    header, data, index + 1, rate, accuracy)

\* Tool.fit on the table (header, rows) of PartAnalyze.csv
Fit(t, lines, header, rows, rate, accuracy) ==
    FitColumns(t, FitStart(t, lines), header, ReadPartAnalyze(rows), 1,
               rate, accuracy)

(***************************************************************************)
(* The inputs of the controller.                                           *)
(***************************************************************************)
Species == {1}
Surfacefluxes == {1}
AdaptiveTypes == {"pressure", "massflow", "temperature"}

\* the arguments of Tool(...)
InitArgs ==
    [adaptive_type : AdaptiveTypes, specie : Species, surfaceflux : Surfacefluxes,
     pressure : {RInt(50)}, cell_size : {RInt(2)},
     particles_in_element : {RInt(1)},
     boltzmann_constant : {Rat(1, 100)}, temperature : {RInt(300)}]

\* the lines a parameter.ini may hold, for species 1 and surface flux 1
OptionUnsetLine == OptionKey(1, 1, "Pressure") \o <<EQ, NONE, NL>>
OptionSetLine == OptionKey(1, 1, "Pressure") \o <<EQ, FloatText(RInt(3)), NL>>
OptionSpacedLine == OptionKey(1, 1, "Pressure") \o <<SPACE, EQ, SPACE, NONE, NL>>
MacroUnsetLine == MacroParticlesKey(1) \o <<EQ, NONE, NL>>
MacroSetLine == MacroParticlesKey(1) \o <<EQ, IntText(7), NL>>
OtherSpeciesLine == MacroParticlesKey(10) \o <<EQ, IntText(4), NL>>

LinePool ==
    {OptionUnsetLine, OptionSetLine, OptionSpacedLine,
     MacroUnsetLine, MacroSetLine, OtherSpeciesLine}

IniFiles == UNION {[1..n -> LinePool] : n \in 0..MaxLines}

\* the column names of PartAnalyze.csv
TimeColumn == <<Lit("001-"), Lit("TIME")>>
MeanFreePathColumn == <<Lit("004-"), Lit("MeanFreePath")>>
PressureColumn(specie, surfaceflux) ==
    <<Lit("Pressure"), Lit("-Spec-00")>> \o Digits(specie)
        \o <<Lit("-SF-00")>> \o Digits(surfaceflux)
MassflowColumn(specie, surfaceflux) ==
    <<Lit("Massflow"), Lit("-Spec-00")>> \o Digits(specie)
        \o <<Lit("-SF-00")>> \o Digits(surfaceflux)

Headers ==
    {<<MeanFreePathColumn, PressureColumn(1, 1)>>,
     <<PressureColumn(1, 1), PressureColumn(1, 10)>>}

\* the rows of a table: the last samples of its two columns
RowPool == {<<80, 80>>, <<80, 100>>, <<100, 80>>}
ZeroRow == <<100, 0>>
\* a table holds one row, or a row followed by a row that holds a 0
Tables ==
    [header : Headers,
     rows : {<<r>> : r \in RowPool \cup {ZeroRow}} \cup {<<<<80, 100>>, ZeroRow>>}]

\* (rate, accuracy) of fit: the defaults, and a large rate with a loose accuracy
FitArgs ==
    {[rate |-> Rat(1, 2), accuracy |-> Rat(1, 20)],
     [rate |-> RInt(6), accuracy |-> Rat(1, 5)]}

\* (output_type, value, characteristic_length, analytical_time) of set_target
TargetArgs ==
    {[output_type |-> "flux", value |-> RInt(100),
      characteristic_length |-> Zero, analytical_time |-> Zero],
     [output_type |-> "Kn", value |-> RInt(2),
      characteristic_length |-> RInt(4), analytical_time |-> RInt(10)],
     [output_type |-> "density", value |-> RInt(100),
      characteristic_length |-> Zero, analytical_time |-> Zero]}

(***************************************************************************)
(* The operations of the controller.                                       *)
(***************************************************************************)
ToolInitial ==
    /\ iniExists \in BOOLEAN
    /\ ini \in IF iniExists THEN IniFiles ELSE {<<>>}
    /\ tool = NoTool
    /\ fits = 0
    /\ call = NoCall

\* Tool(path, adaptive_type, specie, surfaceflux, pressure, cell_size, ...)
New ==
    /\ ~tool.exists
    /\ \E a \in InitArgs : \E r \in {ToolInit(iniExists, ini, a)} :
            /\ ini' = r.lines
            /\ tool' = r.tool
            /\ call' = [NoCall EXCEPT !.op = "init", !.raised = r.raised,
                                      !.adaptive_type = a.adaptive_type,
                                      !.specie = a.specie,
                                      !.surfaceflux = a.surfaceflux,
                                      !.pre_ini = ini, !.pre_tool = tool,
                                      !.writes = r.writes]
    /\ UNCHANGED <<iniExists, fits>>

\* tool.set_target(output_type, value, characteristic_length, analytical_time)
CallSetTarget ==
    /\ tool.exists
    /\ \E a \in TargetArgs :
        /\ tool' = SetTarget(tool, a.output_type, a.value,
                             a.characteristic_length, a.analytical_time)
        /\ call' = [NoCall EXCEPT !.op = "set_target",
                                  !.output_type = a.output_type,
                                  !.pre_ini = ini, !.pre_tool = tool]
    /\ UNCHANGED <<iniExists, ini, fits>>

\* tool.fit(rate, accuracy), PartAnalyze.csv holding the table tb
CallFit ==
    /\ tool.exists
    /\ fits < MaxFits
    /\ \E tb \in Tables, a \in FitArgs :
        \E r \in {Fit(tool, ini, tb.header, tb.rows, a.rate, a.accuracy)} :
            /\ ini' = r.lines
            /\ tool' = [tool EXCEPT !.pressure = r.pressure, !.fitted = r.fitted]
            /\ call' = [NoCall EXCEPT !.op = "fit", !.raised = r.raised,
                                      !.pre_ini = ini, !.pre_tool = tool,
                                      !.header = tb.header, !.rows = tb.rows,
                                      !.rate = a.rate, !.accuracy = a.accuracy,
                                      !.updates = r.updates, !.marked = r.marked,
                                      !.writes = r.writes]
    /\ fits' = fits + 1
    /\ UNCHANGED iniExists

\* Tool.__change_value(option, value) called on its own, for any option and value
StoreKeys == {OptionKey(1, 1, "Pressure"), MacroParticlesKey(1), MacroParticlesKey(10)}
StoreValues == {FloatVal(RInt(45)), IntVal(7)}

CallChangeValue ==
    /\ iniExists
    /\ \E option \in StoreKeys, value \in StoreValues :
        \E w \in {Write(ini, option, value)} :
            /\ ini' = w.after
            /\ call' = [NoCall EXCEPT !.op = "change_value", !.pre_ini = ini,
                                      !.writes = <<w>>]
    /\ UNCHANGED <<iniExists, tool, fits>>

(***************************************************************************)
(* The diagnosis engine: class Validator.                                  *)
(*                                                                         *)
(* The spline of scipy (splrep, splev) is not modelled: slope[c][i] is the *)
(* value splev returns for the derivative of the spline of column c at the *)
(* time of sample i, taken as given.  splrep needs more samples than the   *)
(* degree 3 of the spline, so a table holds at least MinSamples rows.      *)
(* The arguments smoothing and spline_derivative only shape that spline,   *)
(* and save only writes plots and arrays under ./history: none of the      *)
(* three changes what diagnosis raises for given slopes.                   *)
(***************************************************************************)
VARIABLES
    validator,  \* the fields of the Validator object (exists = FALSE: none built)
    vcall       \* the last call of diagnosis: its arguments, its outcome and
                \* the samples whose slopes it has added up (window)

validatorVars == <<validator, vcall>>

\* samples of PartAnalyze.csv
MinSamples == 4
MaxSamples == 4

NoValidator ==
    [exists |-> FALSE, determination_rate |-> Zero, steady_threshold |-> Zero,
     part_analyze_columns |-> <<>>, samples |-> 0, slope |-> <<>>,
     dsmc_state_files |-> <<>>]

NoDiagnosis ==
    [op |-> "none", raised |-> "", steady |-> FALSE, periodicity |-> FALSE,
     collision_probability |-> FALSE, num_of_particles |-> FALSE,
     mcx_over_mfp |-> FALSE, min_middle_num_of_particles_in_element |-> 0,
     window |-> {}]

\* Validator(path, determination_rate, steady_threshold) on the directory d
ValidatorInit(d, determination_rate, steady_threshold) ==
    [exists |-> TRUE, determination_rate |-> determination_rate,
     steady_threshold |-> steady_threshold,
     part_analyze_columns |-> d.columns, samples |-> d.samples,
     slope |-> d.slope, dsmc_state_files |-> d.files]

\* Validator.__allocate_columns: self.__time is bound
HasTime(v) ==
    \E c \in 1..Len(v.part_analyze_columns) :
        Contains(v.part_analyze_columns[c], <<Lit("TIME")>>)

\* ('Massflow' in column) or ('Pressure' in column)
IsSlopeColumn(column) ==
    Contains(column, <<Lit("Massflow")>>) \/ Contains(column, <<Lit("Pressure")>>)

\* steady_state_time_index = int(len(self.__time) * self.determination_rate)
SteadyStateTimeIndex(v) == Trunc(RMul(RInt(v.samples), v.determination_rate))

\* the samples of x[-steady_state_time_index:]
Window(samples, steady_state_time_index) ==
    IF steady_state_time_index = 0 THEN 1..samples
    ELSE {i \in 1..samples : i > samples - steady_state_time_index}

RECURSIVE SumOver(_, _, _)
SumOver(slope, window, periodicity) ==
    IF window = {} THEN 0
    ELSE LET i == CHOOSE j \in window : TRUE
         IN  (IF periodicity THEN slope[i] ELSE Abs(slope[i]))
                 + SumOver(slope, window \ {i}, periodicity)

\* total_slope of the column c
TotalSlope(v, c, periodicity) ==
    SumOver(v.slope[c], Window(v.samples, SteadyStateTimeIndex(v)), periodicity)

\* mean_slope = total_slope / x.shape[0]
MeanSlope(v, c, periodicity) == Rat(TotalSlope(v, c, periodicity), v.samples)

\* Validator.__diagnosis_steady_state raises at the column c
ColumnNotSteady(v, c, steady, periodicity) ==
    /\ IsSlopeColumn(v.part_analyze_columns[c])
    /\ ~RLt(MeanSlope(v, c, periodicity), v.steady_threshold)
    /\ RLt(v.steady_threshold, MeanSlope(v, c, periodicity))
    /\ steady

\* the samples the loop over x[-steady_state_time_index:] visits in a call;
\* the loop runs for a Massflow or Pressure column only
Accumulated(v) ==
    IF HasTime(v)
       /\ \E c \in 1..Len(v.part_analyze_columns) :
            IsSlopeColumn(v.part_analyze_columns[c])
    THEN Window(v.samples, SteadyStateTimeIndex(v))
    ELSE {}

\* Validator.__diagnosis_steady_state: what it raises ("" when it returns)
DiagnosisSteadyState(v, steady, periodicity) ==
    IF ~HasTime(v) THEN "TypeError"
    ELSE IF \E c \in 1..Len(v.part_analyze_columns) :
                ColumnNotSteady(v, c, steady, periodicity)
    THEN "NotSteadyState"
    ELSE ""

\* Validator.__exist_dsmc_state_files raises
NoDsmcStateFiles(v) == Len(v.dsmc_state_files) = 0

\* the elements of DSMCData(self.__dsmc_state_files[-1])
LastDsmcState(v) == v.dsmc_state_files[Len(v.dsmc_state_files)]

RECURSIVE RMaxOf(_)
RMaxOf(qs) ==
    IF Len(qs) = 1 THEN qs[1]
    ELSE LET m == RMaxOf(Tail(qs)) IN IF RLt(m, qs[1]) THEN qs[1] ELSE m

RECURSIVE RMinOf(_)
RMinOf(qs) ==
    IF Len(qs) = 1 THEN qs[1]
    ELSE LET m == RMinOf(Tail(qs)) IN IF RLt(qs[1], m) THEN qs[1] ELSE m

RECURSIVE RSumOf(_)
RSumOf(qs) == IF Len(qs) = 0 THEN Zero ELSE RAdd(qs[1], RSumOf(Tail(qs)))

\* np.mean
RMeanOf(qs) == RDiv(RSumOf(qs), RInt(Len(qs)))

\* (np.max + np.min) / 2
Middle(qs) == RDiv(RAdd(RMaxOf(qs), RMinOf(qs)), RInt(2))

Channel(data, name) == [e \in 1..Len(data) |-> data[e][name]]

\* Validator.__diagnosis_collision_probability raises
CollisionProbabilityRaises(data) ==
    \/ ~RLt(RMaxOf(Channel(data, "DSMC_MaxCollProb")), RInt(1))
    \/ ~(/\ RLt(Rat(1, 10), Middle(Channel(data, "DSMC_MeanCollProb")))
         /\ RLt(Middle(Channel(data, "DSMC_MeanCollProb")), RInt(1)))

\* a variant that lets a middle equal to the minimum pass
NumOfParticlesRaisesBelow(data, min_middle_num_of_particles_in_element) ==
    RLt(Middle(Channel(data, "Total_SimPartNum")),
        RInt(min_middle_num_of_particles_in_element))

\* Validator.__diagnosis_num_of_particles raises
NumOfParticlesRaises(data, min_middle_num_of_particles_in_element) ==
    ~RLt(RInt(min_middle_num_of_particles_in_element),
         Middle(Channel(data, "Total_SimPartNum")))

\* Validator.__is_mcx_over_mfp raises
McxOverMfpRaises(data) ==
    ~RLt(RMeanOf(Channel(data, "DSMC_MCS_over_MFP")), RInt(1))

\* a variant that counts the particles before it checks the collision probability
DiagnosisParticlesFirst(v, a) ==
    LET steady_state == DiagnosisSteadyState(v, a.steady, a.periodicity)
    IN  IF steady_state # "" THEN steady_state
        ELSE IF NoDsmcStateFiles(v) THEN "NoDsmcStateFiles"
        ELSE IF a.num_of_particles
                /\ NumOfParticlesRaises(LastDsmcState(v),
                                        a.min_middle_num_of_particles_in_element)
        THEN "NumOfParticles"
        ELSE IF a.collision_probability
                /\ CollisionProbabilityRaises(LastDsmcState(v))
        THEN "CollisionProbability"
        ELSE IF a.mcx_over_mfp /\ McxOverMfpRaises(LastDsmcState(v))
        THEN "McxOverMfp"
        ELSE ""

\* Validator.diagnosis with the arguments a: what it raises ("" when it returns)
Diagnosis(v, a) ==
    LET steady_state == DiagnosisSteadyState(v, a.steady, a.periodicity)
    IN  IF steady_state # "" THEN steady_state
        ELSE IF NoDsmcStateFiles(v) THEN "NoDsmcStateFiles"
        ELSE IF a.collision_probability
                /\ CollisionProbabilityRaises(LastDsmcState(v))
        THEN "CollisionProbability"
        ELSE IF a.num_of_particles
                /\ NumOfParticlesRaises(LastDsmcState(v),
                                        a.min_middle_num_of_particles_in_element)
        THEN "NumOfParticles"
        ELSE IF a.mcx_over_mfp /\ McxOverMfpRaises(LastDsmcState(v))
        THEN "McxOverMfp"
        ELSE ""

(***************************************************************************)
(* The inputs of the diagnosis engine.                                     *)
(***************************************************************************)
\* the slopes of one column: 0 up to a sample and 1 after it, 1 up to a
\* sample and 0 after it, or 1 and -1 in turn
StepUp(n) == {[i \in 1..n |-> IF i > j THEN 1 ELSE 0] : j \in 0..n}
StepDown(n) == {[i \in 1..n |-> IF i <= j THEN 1 ELSE 0] : j \in 1..(n - 1)}
InTurn(n) == {[i \in 1..n |-> IF i % 2 = 1 THEN 1 ELSE -1]}
Profiles(n) == StepUp(n) \cup StepDown(n) \cup InTurn(n)
Flat(n) == [i \in 1..n |-> 0]
Steep(n) == [i \in 1..n |-> 1]

\* the tables of PartAnalyze.csv, the rows that hold a 0 dropped
PartAnalyzeTables ==
    UNION {
        {[columns |-> <<TimeColumn, PressureColumn(1, 1)>>, samples |-> n,
          slope |-> <<Flat(n), p>>] : p \in Profiles(n)}
        \cup
        {[columns |-> <<TimeColumn, MassflowColumn(1, 1), PressureColumn(1, 1)>>,
          samples |-> n, slope |-> <<Flat(n), p, q>>] :
            p \in Profiles(n), q \in {Flat(n), Steep(n)}}
        : n \in MinSamples..MaxSamples}

\* one element of ElemData, by the channels diagnosis reads
Elem(max_coll_prob, mean_coll_prob, sim_part_num, mcs_over_mfp) ==
    [DSMC_MaxCollProb |-> max_coll_prob, DSMC_MeanCollProb |-> mean_coll_prob,
     Total_SimPartNum |-> sim_part_num, DSMC_MCS_over_MFP |-> mcs_over_mfp]

GoodElem == Elem(Rat(1, 2), Rat(1, 2), RInt(42), Rat(1, 2))
HighCollElem == Elem(RInt(1), Rat(1, 2), RInt(42), Rat(1, 2))
FewPartElem == Elem(Rat(1, 2), Rat(1, 2), RInt(38), Rat(1, 2))
HighMcsElem == Elem(Rat(1, 2), Rat(1, 2), RInt(42), Rat(3, 2))
LowMeanCollElem == Elem(Rat(1, 2), Rat(1, 10), RInt(42), Rat(1, 2))

ElemPool ==
    {Elem(a, Rat(1, 2), b, c) :
        a \in {Rat(1, 2), RInt(1)}, b \in {RInt(42), RInt(38)},
        c \in {Rat(1, 2), Rat(3, 2)}}
    \cup {LowMeanCollElem}

\* the DSMCState files of a directory, in the order of their names
DsmcStateFiles ==
    {<<>>}
    \cup {<<<<e>>>> : e \in ElemPool}
    \cup {<<<<GoodElem, e>>>> : e \in {HighCollElem, FewPartElem, HighMcsElem}}
    \cup {<<<<HighCollElem>>, <<GoodElem>>>>}

Directories ==
    {[columns |-> t.columns, samples |-> t.samples, slope |-> t.slope,
      files |-> f] : t \in PartAnalyzeTables, f \in DsmcStateFiles}

\* (determination_rate, steady_threshold) of Validator(...): the defaults, and
\* windows of half the samples and of all of them
ValidatorArgs ==
    {[determination_rate |-> Rat(1, 10), steady_threshold |-> Rat(1, 2)],
     [determination_rate |-> Rat(1, 2), steady_threshold |-> Rat(1, 2)],
     [determination_rate |-> RInt(1), steady_threshold |-> Rat(1, 2)]}

DiagnosisArgs ==
    [op : {"diagnosis"}, raised : {""}, steady : BOOLEAN, periodicity : BOOLEAN,
     collision_probability : BOOLEAN, num_of_particles : BOOLEAN,
     mcx_over_mfp : BOOLEAN, min_middle_num_of_particles_in_element : {40, 39},
     window : {{}}]

(***************************************************************************)
(* The operations of the diagnosis engine.                                 *)
(***************************************************************************)
ValidatorInitial ==
    /\ validator = NoValidator
    /\ vcall = NoDiagnosis

\* Validator(path, determination_rate, steady_threshold)
NewValidator ==
    /\ ~validator.exists
    /\ \E d \in Directories, a \in ValidatorArgs :
        validator' = ValidatorInit(d, a.determination_rate, a.steady_threshold)
    /\ UNCHANGED vcall

\* validator.diagnosis(steady, periodicity, collision_probability, ...); the
\* call leaves the object as it was, so one call shows all a later one can
CallDiagnosis ==
    /\ validator.exists
    /\ vcall.op = "none"
    /\ \E a \in DiagnosisArgs :
        vcall' = [a EXCEPT !.raised = Diagnosis(validator, a),
                           !.window = Accumulated(validator)]
    /\ UNCHANGED validator

(***************************************************************************)
(* The specifications: of the controller, of Tool.__change_value on its    *)
(* own, and of the diagnosis engine.                                       *)
(***************************************************************************)
vars == <<iniExists, ini, tool, fits, call, validator, vcall>>

Init == ToolInitial /\ ValidatorInitial

Next ==
    \/ New /\ UNCHANGED validatorVars
    \/ CallSetTarget /\ UNCHANGED validatorVars
    \/ CallFit /\ UNCHANGED validatorVars

Spec == Init /\ [][Next]_vars

StoreInit == ToolInitial /\ ValidatorInitial

StoreNext == CallChangeValue /\ UNCHANGED validatorVars

SpecStore == StoreInit /\ [][StoreNext]_vars

ValidatorSpecInit ==
    /\ iniExists = FALSE
    /\ ini = <<>>
    /\ tool = NoTool
    /\ fits = 0
    /\ call = NoCall
    /\ ValidatorInitial

ValidatorNext ==
    \/ NewValidator /\ UNCHANGED toolVars
    \/ CallDiagnosis /\ UNCHANGED toolVars

SpecValidator == ValidatorSpecInit /\ [][ValidatorNext]_vars

(***************************************************************************)
(* What the claims speak of.                                               *)
(***************************************************************************)
\* the option keys the last construction derived from its arguments
CallOption == OptionKey(call.specie, call.surfaceflux, "Pressure")
CallMacroParticles == MacroParticlesKey(call.specie)

\* a line holds the key with a value other than None
ManuallySet(lines, key) ==
    \E i \in 1..Len(lines) :
        Contains(lines[i], key) /\ ~Contains(lines[i], <<NONE>>)

\* every line that holds the key reads key=None
Unset(lines, key) ==
    \A i \in 1..Len(lines) :
        Contains(lines[i], key) => lines[i] = key \o <<EQ, NONE, NL>>

HoldsKey(lines, key) == \E i \in 1..Len(lines) : Contains(lines[i], key)

\* the columns of the last fit's table that hold the target
TargetColumns ==
    {c \in 1..Len(call.header) : Contains(call.header[c], call.pre_tool.target)}

FirstTargetColumn == CHOOSE c \in TargetColumns : \A d \in TargetColumns : c <= d

\* the last fit read a table with a sample in a target column
FitRead ==
    /\ call.op = "fit"
    /\ call.raised = ""
    /\ call.pre_tool.has_target
    /\ TargetColumns # {}
    /\ ReadPartAnalyze(call.rows) # <<>>

\* the last sample of the column c of the last fit's table
LastSample(c) ==
    RInt(ReadPartAnalyze(call.rows)[Len(ReadPartAnalyze(call.rows))][c])

\* e = (steadyValue - desired) / desired, for the column c
RelativeError(c) ==
    RDiv(RSub(LastSample(c), call.pre_tool.desired_value),
         call.pre_tool.desired_value)

WithinAccuracy(c) == RLt(RAbs(RelativeError(c)), call.accuracy)

\* the line of the option key holding the value q
OptionLine(t, q) == t.option \o <<EQ, FloatText(q), NL>>

(***************************************************************************)
(* C1.  A construction on a parameter.ini in which the adaptive-option key *)
(* or the MacroParticleFactor key is on a line with a value other than     *)
(* None fails, with the already-defined error when the adaptive type is    *)
(* pressure, and leaves every line of the file as it was.                  *)
(***************************************************************************)
C1_ConstructionNeverClobbers ==
    (/\ call.op = "init"
     /\ iniExists
     /\ \/ ManuallySet(call.pre_ini, CallOption)
        \/ ManuallySet(call.pre_ini, CallMacroParticles))
    => /\ call.raised # ""
       /\ ~tool.exists
       /\ ini = call.pre_ini
       /\ call.adaptive_type = "pressure" => call.raised = "AlreadyDefined"

\* the option is unset and would be written, the factor is set by hand
C1_Witness ==
    /\ call.op = "init"
    /\ call.adaptive_type = "pressure"
    /\ HoldsKey(call.pre_ini, CallOption)
    /\ Unset(call.pre_ini, CallOption)
    /\ ManuallySet(call.pre_ini, CallMacroParticles)
    /\ call.raised = "AlreadyDefined"
    /\ ini = call.pre_ini

(***************************************************************************)
(* C2, as stated.  Every adaptive type outside {pressure, massflow} fails  *)
(* with the invalid-type error, and pressure and massflow both succeed on  *)
(* a file whose derived keys are unset.                                    *)
(***************************************************************************)
C2_PressureAndMassflowSucceed ==
    (call.op = "init" /\ iniExists)
    => /\ call.adaptive_type \notin {"pressure", "massflow"}
            => call.raised = "InvalidAdaptiveType"
       /\ (/\ call.adaptive_type \in {"pressure", "massflow"}
           /\ Unset(call.pre_ini, CallOption)
           /\ Unset(call.pre_ini, CallMacroParticles))
            => call.raised = "" /\ tool.exists

(***************************************************************************)
(* C2, amended.  Every adaptive type other than pressure, massflow among   *)
(* them, fails with the invalid-type error; pressure succeeds on a file in *)
(* which every line holding a derived key reads key=None.                  *)
(***************************************************************************)
C2_OnlyPressureSucceeds ==
    (call.op = "init" /\ iniExists)
    => /\ call.adaptive_type # "pressure"
            => call.raised = "InvalidAdaptiveType" /\ ~tool.exists
       /\ (/\ call.adaptive_type = "pressure"
           /\ Unset(call.pre_ini, CallOption)
           /\ Unset(call.pre_ini, CallMacroParticles))
            => call.raised = "" /\ tool.exists

C2_Witness ==
    /\ call.op = "init"
    /\ call.adaptive_type = "pressure"
    /\ HoldsKey(call.pre_ini, CallOption)
    /\ HoldsKey(call.pre_ini, CallMacroParticles)
    /\ call.raised = ""
    /\ tool.exists

(***************************************************************************)
(* C3.  A fit whose target column (the first column holding the target     *)
(* string, the only one when the header has a single such column) ends on  *)
(* a sample with |e| < accuracy sets fitted and changes nothing else: the  *)
(* pressure and every line of parameter.ini stay as they were.             *)
(***************************************************************************)
C3_FittedMutatesNothingElse ==
    (FitRead /\ WithinAccuracy(FirstTargetColumn))
    => /\ tool.fitted
       /\ tool = [call.pre_tool EXCEPT !.fitted = TRUE]
       /\ ini = call.pre_ini
       /\ call.writes = <<>>

\* the last sample equals the desired value and the controller was tuning
C3_Witness ==
    /\ FitRead
    /\ Cardinality(TargetColumns) = 1
    /\ LastSample(FirstTargetColumn) = call.pre_tool.desired_value
    /\ ~call.pre_tool.fitted
    /\ HoldsKey(ini, tool.option)
    /\ tool.fitted
    /\ tool.pressure = call.pre_tool.pressure

(***************************************************************************)
(* C4.  A fit on a table with one target column and |e| >= accuracy leaves *)
(* the pressure at |current + current*rate*e|, which is not negative; and  *)
(* after any calls every line of parameter.ini that holds the option key   *)
(* reads key=pressure for the pressure the controller holds.               *)
(***************************************************************************)
C4_MultiplicativeLawPersisted ==
    /\ (FitRead /\ Cardinality(TargetColumns) = 1
            /\ ~WithinAccuracy(FirstTargetColumn))
        => /\ tool.pressure =
                RAbs(RAdd(call.pre_tool.pressure,
                          RMul(RMul(call.pre_tool.pressure, call.rate),
                               RelativeError(FirstTargetColumn))))
           /\ ~RLt(tool.pressure, Zero)
    /\ tool.exists
        => \A i \in 1..Len(ini) :
              Contains(ini[i], tool.option)
                  => ini[i] = OptionLine(tool, tool.pressure)

\* desired = 100, current = 50, rate = 0.5, steadyValue = 80 give 45
C4_Witness ==
    /\ FitRead
    /\ Cardinality(TargetColumns) = 1
    /\ call.pre_tool.desired_value = RInt(100)
    /\ call.pre_tool.pressure = RInt(50)
    /\ call.rate = Rat(1, 2)
    /\ LastSample(FirstTargetColumn) = RInt(80)
    /\ tool.pressure = RInt(45)
    /\ \E i \in 1..Len(ini) : ini[i] = OptionLine(tool, RInt(45))

(***************************************************************************)
(* C5.  Every fit that reads a sample of a target column applies the       *)
(* update law once when it does not mark the controller fitted, and not at *)
(* all when it does, whatever the header of the table.                     *)
(***************************************************************************)
C5_OneStepPerCall ==
    FitRead => call.updates = (IF call.marked THEN 0 ELSE 1)

(***************************************************************************)
(* C6.  A fit on a fitted controller whose table yields |e| >= accuracy    *)
(* leaves the controller tuning: is_fitted reports false.                  *)
(***************************************************************************)
C6_FittedNotLatched ==
    (/\ FitRead
     /\ Cardinality(TargetColumns) = 1
     /\ call.pre_tool.fitted
     /\ ~WithinAccuracy(FirstTargetColumn))
    => ~tool.fitted

(***************************************************************************)
(* C10.  A call of __change_value(option, value) writes back as many lines *)
(* as it read, in their order: a line that does not hold the option is as  *)
(* it was, a line that holds it reads option=value, and the file is as it  *)
(* was when no line holds the option.                                      *)
(***************************************************************************)
C10_SetPreservesFrame ==
    /\ \A k \in 1..Len(call.writes) :
        LET w == call.writes[k]
        IN  /\ Len(w.after) = Len(w.before)
            /\ \A i \in 1..Len(w.before) :
                  ~Contains(w.before[i], w.option) => w.after[i] = w.before[i]
            /\ \A i \in 1..Len(w.after) :
                  (Contains(w.before[i], w.option) \/ Contains(w.after[i], w.option))
                      => w.after[i] = w.option \o <<EQ>> \o Fmt(w.value) \o <<NL>>
            /\ ~HoldsKey(w.before, w.option) => w.after = w.before
    /\ call.op = "change_value" => ini = call.writes[1].after

\* a line that holds the option is rewritten and another line stays
C10_Witness ==
    /\ call.op = "change_value"
    /\ \E i, j \in 1..Len(call.pre_ini) :
        /\ Contains(call.pre_ini[i], call.writes[1].option)
        /\ ini[i] # call.pre_ini[i]
        /\ ~Contains(call.pre_ini[j], call.writes[1].option)
        /\ ini[j] = call.pre_ini[j]

\* the Massflow and Pressure columns of the validator's table
SlopeColumns ==
    {c \in 1..Len(validator.part_analyze_columns) :
        IsSlopeColumn(validator.part_analyze_columns[c])}

Diagnosed == validator.exists /\ vcall.op = "diagnosis"

\* a snapshot-based check is asked for
SnapshotCheckRequested ==
    vcall.collision_probability \/ vcall.num_of_particles \/ vcall.mcx_over_mfp

\* the five checks of diagnosis in their order, the error of each, whether the
\* call runs each, and whether each finds its condition violated
Checks == 1..5

CheckError ==
    <<"NotSteadyState", "NoDsmcStateFiles", "CollisionProbability",
      "NumOfParticles", "McxOverMfp">>

CheckEnabled(k) ==
    CASE k = 1 -> vcall.steady
      [] k = 2 -> TRUE
      [] k = 3 -> vcall.collision_probability
      [] k = 4 -> vcall.num_of_particles
      [] k = 5 -> vcall.mcx_over_mfp

HasSnapshot == Len(validator.dsmc_state_files) > 0

CheckViolated(k) ==
    CASE k = 1 ->
            \E c \in SlopeColumns :
                RLt(validator.steady_threshold,
                    MeanSlope(validator, c, vcall.periodicity))
      [] k = 2 -> ~HasSnapshot
      [] k = 3 ->
            HasSnapshot /\ CollisionProbabilityRaises(LastDsmcState(validator))
      [] k = 4 ->
            HasSnapshot
            /\ NumOfParticlesRaises(LastDsmcState(validator),
                    vcall.min_middle_num_of_particles_in_element)
      [] k = 5 -> HasSnapshot /\ McxOverMfpRaises(LastDsmcState(validator))

(***************************************************************************)
(* C7.  With the steady-state check enabled, diagnosis fails with the      *)
(* not-steady error exactly when the mean slope of some Massflow or        *)
(* Pressure column is greater than or equal to the threshold.              *)
(***************************************************************************)
C7_NotSteadyAtOrAboveThreshold ==
    (Diagnosed /\ vcall.steady)
    => (vcall.raised = "NotSteadyState"
        <=> \E c \in SlopeColumns :
                ~RLt(MeanSlope(validator, c, vcall.periodicity),
                     validator.steady_threshold))

(***************************************************************************)
(* C8.  diagnosis raises the error of the first check, in the order        *)
(* steady state, snapshot files, collision probability, number of          *)
(* particles, collision scale, that it runs and that finds its condition   *)
(* violated: no check before the one that raised was both run and          *)
(* violated, a check that is switched off never raises, and the call       *)
(* returns only when no check it runs is violated.  The steady-state check *)
(* counts as violated when a mean slope is above the threshold; the        *)
(* snapshot files are required by every call.                              *)
(***************************************************************************)
C8_FirstViolatedCheckRaises ==
    Diagnosed
    => /\ \A k \in Checks :
            vcall.raised = CheckError[k]
            => /\ CheckEnabled(k)
               /\ CheckViolated(k)
               /\ \A j \in 1..(k - 1) : ~(CheckEnabled(j) /\ CheckViolated(j))
       /\ vcall.raised = ""
            => \A k \in Checks : ~(CheckEnabled(k) /\ CheckViolated(k))
       /\ vcall.raised \in {""} \cup {CheckError[k] : k \in Checks}

\* the particles and the collision scale are both violated and checked, the
\* collision probability is violated but switched off
C8_Witness ==
    /\ Diagnosed
    /\ ~vcall.collision_probability
    /\ CheckViolated(3)
    /\ vcall.num_of_particles /\ CheckViolated(4)
    /\ vcall.mcx_over_mfp /\ CheckViolated(5)
    /\ vcall.raised = "NumOfParticles"

(***************************************************************************)
(* C9.  diagnosis fails with the no-snapshot-files error exactly when a    *)
(* snapshot-based check is asked for and the directory holds no snapshot   *)
(* file (and the steady-state check has not failed before); with the three *)
(* snapshot-based checks switched off it never fails with that error.      *)
(***************************************************************************)
C9_NoSnapshotFilesOnlyWhenRequested ==
    Diagnosed
    => (vcall.raised = "NoDsmcStateFiles"
        <=> /\ SnapshotCheckRequested
            /\ ~HasSnapshot
            /\ ~(CheckEnabled(1) /\ CheckViolated(1)))

\* the particle check of the call is reached: it is switched on and no check
\* before it has raised
ParticleCheckRan ==
    /\ Diagnosed
    /\ vcall.num_of_particles
    /\ vcall.raised \in {"", "NumOfParticles", "McxOverMfp"}

\* the simulation particle counts of the elements of the last snapshot
ParticleCounts ==
    {LastDsmcState(validator)[e].Total_SimPartNum[1] :
        e \in 1..Len(LastDsmcState(validator))}

MaxCount == CHOOSE n \in ParticleCounts : \A m \in ParticleCounts : m <= n
MinCount == CHOOSE n \in ParticleCounts : \A m \in ParticleCounts : n <= m

\* twice the midpoint (max + min) / 2 of the particle counts, and twice the
\* configured minimum
TwiceMidpoint == MaxCount + MinCount
TwiceMinimum == 2 * vcall.min_middle_num_of_particles_in_element

(***************************************************************************)
(* C11.  Whenever diagnosis reaches the particle-sufficiency check, the    *)
(* check passes exactly when the midpoint (max + min) / 2 of the           *)
(* simulation particle counts of the elements is strictly greater than the *)
(* configured minimum: a midpoint equal to the minimum fails with the      *)
(* number-of-particles error, and a midpoint one above the minimum passes. *)
(***************************************************************************)
C11_ParticleMidpointStrictlyAbove ==
    ParticleCheckRan
    => /\ vcall.raised # "NumOfParticles" <=> TwiceMidpoint > TwiceMinimum
       /\ TwiceMidpoint = TwiceMinimum => vcall.raised = "NumOfParticles"
       /\ TwiceMidpoint = TwiceMinimum + 2 => vcall.raised # "NumOfParticles"

\* two elements of different counts whose midpoint is the minimum: the call
\* fails
C11_Witness ==
    /\ ParticleCheckRan
    /\ MaxCount > MinCount
    /\ TwiceMidpoint = TwiceMinimum
    /\ vcall.raised = "NumOfParticles"

\* the same snapshot against a minimum one lower: the check passes
C11_OneAbovePasses ==
    /\ ParticleCheckRan
    /\ MaxCount > MinCount
    /\ TwiceMidpoint = TwiceMinimum + 2
    /\ vcall.raised = ""

\* floor(N * determinationRate) for the N samples of the validator's table
TrailingCount ==
    (validator.samples * validator.determination_rate[1])
        \div validator.determination_rate[2]

\* the last TrailingCount samples, none when TrailingCount is 0
TrailingSamples ==
    {i \in 1..validator.samples : i > validator.samples - TrailingCount}

\* the slopes of the column c over the last TrailingCount samples, added up
TrailingSum(c) == SumOver(validator.slope[c], TrailingSamples, vcall.periodicity)

(***************************************************************************)
(* C12.  In the steady-state check of a diagnosis call, the samples whose  *)
(* slopes are added up are exactly the last floor(N * determinationRate)   *)
(* of the N samples, none of them when that number is 0, and the mean      *)
(* slope of every Massflow or Pressure column is the sum over those        *)
(* samples divided by N.                                                   *)
(***************************************************************************)
C12_TrailingWindowOverTotalCount ==
    Diagnosed
    => /\ vcall.window = TrailingSamples
       /\ \A c \in SlopeColumns :
            MeanSlope(validator, c, vcall.periodicity)
                = Rat(TrailingSum(c), validator.samples)

====
